---- MODULE Spec2Model ----
(***************************************************************************)
(* GenerateFigureFromFile: the geometry extraction layer.                  *)
(*                                                                         *)
(*   main.py     make_molecule_from_file (the dispatcher), main's loop     *)
(*   parsing.py  parse_geom_from_log, parse_geom_from_xyz,                 *)
(*               parse_geom_from_com                                       *)
(*                                                                         *)
(* A Python str is a sequence of one-character strings.  Python indices    *)
(* are 0-based and TLA+ sequences 1-based: the slicing operators take the  *)
(* Python indices and do the shift.                                        *)
(***************************************************************************)
EXTENDS Integers, Sequences, FiniteSets, TLC

VARIABLES
    pc,          \* position of the program
    file,        \* argument of make_molecule_from_file: the path
    directory,   \* argument of make_molecule_from_file
    parser,      \* the parsing function the dispatcher called, or "none"
    disk,        \* what the file on disk holds: the lines and how they were made
    handles,     \* number of file handles currently open
    opened,      \* number of file handles this call acquired
    lines,       \* f.readlines()
    result_string,   \* parse_geom_from_log: the joined backslash lines
    result,      \* the list the parsing function returned
    err,         \* the exception that left the call, or "none"
    prints,      \* number of print() calls of the parsing function
    molecule     \* the Molecule make_molecule_from_file returned, or None

vars == <<pc, file, directory, parser, disk, handles, opened, lines, result_string,
          result, err, prints, molecule>>

None == <<"None">>

(***************************************************************************)
(* Characters.                                                             *)
(***************************************************************************)
BS == "\\"
NL == "\n"
SP == " "

Digits == {"0", "1", "2", "3", "4", "5", "6", "7", "8", "9"}

\* [A-Za-z] of the .com pattern.
Letters ==
    {"a", "b", "c", "d", "e", "f", "g", "h", "i", "j", "k", "l", "m", "n", "o", "p", "q",
     "r", "s", "t", "u", "v", "w", "x", "y", "z",
     "A", "B", "C", "D", "E", "F", "G", "H", "I", "J", "K", "L", "M", "N", "O", "P", "Q",
     "R", "S", "T", "U", "V", "W", "X", "Y", "Z"}

\* str.strip() and float() drop these at both ends.
Whitespace == {" ", "\n", "\t"}

Min(a, b) == IF a < b THEN a ELSE b

(***************************************************************************)
(* Python str operations.                                                  *)
(***************************************************************************)
\* s[a:b]
Slice(s, a, b) == SubSeq(s, a + 1, Min(b, Len(s)))

\* s[a:]
SliceFrom(s, a) == SubSeq(s, a + 1, Len(s))

\* s.index(c) for a one-character c: the FIRST position, -1 standing for the
\* ValueError of a string without c.
RECURSIVE IndexFrom(_, _, _)
IndexFrom(s, c, i) ==
    IF i > Len(s) THEN -1
    ELSE IF s[i] = c THEN i - 1
    ELSE IndexFrom(s, c, i + 1)

Index(s, c) == IndexFrom(s, c, 1)

\* c in s
Contains(s, c) == \E i \in 1..Len(s) : s[i] = c

\* s.replace(c, "") for a one-character c
RECURSIVE Remove(_, _)
Remove(s, c) ==
    IF s = <<>> THEN <<>>
    ELSE IF Head(s) = c THEN Remove(Tail(s), c)
    ELSE <<Head(s)>> \o Remove(Tail(s), c)

\* Position (1-based) of the first occurrence of sep in s at or after i, 0 if none.
RECURSIVE FindFrom(_, _, _)
FindFrom(s, sep, i) ==
    IF i + Len(sep) - 1 > Len(s) THEN 0
    ELSE IF SubSeq(s, i, i + Len(sep) - 1) = sep THEN i
    ELSE FindFrom(s, sep, i + 1)

\* s.split(sep): left to right, occurrences do not overlap, empty pieces kept.
RECURSIVE Split(_, _)
Split(s, sep) ==
    LET k == FindFrom(s, sep, 1)
    IN  IF k = 0 THEN <<s>>
        ELSE <<SubSeq(s, 1, k - 1)>> \o Split(SubSeq(s, k + Len(sep), Len(s)), sep)

\* s.strip()
RECURSIVE LStrip(_)
LStrip(s) ==
    IF s # <<>> /\ Head(s) \in Whitespace THEN LStrip(Tail(s)) ELSE s

RECURSIVE RStrip(_)
RStrip(s) ==
    IF s # <<>> /\ s[Len(s)] \in Whitespace THEN RStrip(SubSeq(s, 1, Len(s) - 1)) ELSE s

Strip(s) == LStrip(RStrip(s))

\* "".join(list) / sep.join(list)
RECURSIVE Join(_, _)
Join(list, sep) ==
    IF list = <<>> THEN <<>>
    ELSE IF Len(list) = 1 THEN list[1]
    ELSE list[1] \o sep \o Join(Tail(list), sep)

(***************************************************************************)
(* float(s).  No string the inputs hand to float() holds an exponent,      *)
(* "inf", "nan" or an underscore, so the grammar left is                   *)
(*     ws* [+-]? ( digit+ [. digit*] | . digit+ ) ws*                      *)
(* The value is kept exactly, as the pair of the signed digits and the     *)
(* number of digits after the point, with trailing zeros cancelled.        *)
(***************************************************************************)
AllDigits(s) == \A i \in 1..Len(s) : s[i] \in Digits

Unsigned(s) ==
    IF s # <<>> /\ Head(s) \in {"-", "+"} THEN Tail(s) ELSE s

IsFloat(s) ==
    LET u == Unsigned(Strip(s))
        d == Index(u, ".")
    IN  IF d = -1 THEN u # <<>> /\ AllDigits(u)
        ELSE /\ AllDigits(Slice(u, 0, d))
             /\ AllDigits(SliceFrom(u, d + 1))
             /\ Len(u) > 1

DigitValue(c) ==
    CASE c = "0" -> 0 [] c = "1" -> 1 [] c = "2" -> 2 [] c = "3" -> 3 [] c = "4" -> 4
      [] c = "5" -> 5 [] c = "6" -> 6 [] c = "7" -> 7 [] c = "8" -> 8 [] c = "9" -> 9

RECURSIVE DigitsValue(_, _)
DigitsValue(s, acc) ==
    IF s = <<>> THEN acc ELSE DigitsValue(Tail(s), 10 * acc + DigitValue(Head(s)))

RECURSIVE Normal(_, _)
Normal(m, e) ==
    IF m = 0 THEN <<0, 0>>
    ELSE IF e > 0 /\ m % 10 = 0 THEN Normal(m \div 10, e - 1)
    ELSE <<m, e>>

Float(s) ==
    LET t == Strip(s)
        u == Unsigned(t)
        d == Index(u, ".")
        whole == IF d = -1 THEN u ELSE Slice(u, 0, d)
        frac == IF d = -1 THEN <<>> ELSE SliceFrom(u, d + 1)
        m == DigitsValue(whole \o frac, 0)
    IN  Normal(IF t # <<>> /\ Head(t) = "-" THEN 0 - m ELSE m, Len(frac))

(***************************************************************************)
(* main.py: make_molecule_from_file, line 21.  The key looked up in        *)
(* parsing_dict is everything after the FIRST "." of the path.             *)
(***************************************************************************)
LOG == <<"l", "o", "g">>
XYZ == <<"x", "y", "z">>
COM == <<"c", "o", "m">>

parsing_dict == {LOG, XYZ, COM}

ParserName(key) ==
    CASE key = LOG -> "parse_geom_from_log"
      [] key = XYZ -> "parse_geom_from_xyz"
      [] key = COM -> "parse_geom_from_com"

\* Lookup, had the key been the last three characters of the path, file[-3:].
LookupSuffix(path) ==
    LET key == SubSeq(path, Len(path) - 2, Len(path))
    IN  IF Len(path) < 3 \/ key \notin parsing_dict THEN "KeyError" ELSE ParserName(key)

\* parsing_dict[file[file.index(".") + 1:]]: the function found, or the exception
\* of str.index (no "." in the path) or of the dict (no such key).
Lookup(path) ==
    LET i == Index(path, ".")
        key == SliceFrom(path, i + 1)
    IN  IF i = -1 THEN "ValueError"
        ELSE IF key \notin parsing_dict THEN "KeyError"
        ELSE ParserName(key)

(***************************************************************************)
(* parsing.py: the fixed-offset reading of one line (xyz, lines 197-201)   *)
(* or of one match (com, lines 245-249).  A slice past the end of a Python *)
(* str is shorter or empty, never an error: only float() can raise.        *)
(* An atom is <<name, x, y, z>>.                                           *)
(***************************************************************************)
\* ColumnsOk, had the z field not been read.
ColumnsOkXY(s) ==
    /\ IsFloat(Slice(s, 2, 17))
    /\ IsFloat(Slice(s, 18, 32))

ColumnsOk(s) ==
    /\ IsFloat(Slice(s, 2, 17))
    /\ IsFloat(Slice(s, 18, 32))
    /\ IsFloat(Slice(s, 33, 47))

ColumnsAtom(s) ==
    <<Strip(Slice(s, 0, 2)),
      Float(Slice(s, 2, 17)), Float(Slice(s, 18, 32)), Float(Slice(s, 33, 47))>>

\* The loop of lines 196-201 and 244-249: the first float() that raises ends the
\* call with ValueError, whatever was accumulated.
RECURSIVE ColumnsLoop(_, _)
ColumnsLoop(rows, atoms) ==
    IF rows = <<>> THEN [err |-> "none", atoms |-> atoms, prints |-> 0]
    ELSE IF ~ColumnsOk(Head(rows))
         THEN [err |-> "ValueError", atoms |-> None, prints |-> 0]
    ELSE ColumnsLoop(Tail(rows), Append(atoms, ColumnsAtom(Head(rows))))

(***************************************************************************)
(* parsing.py: parse_geom_from_xyz, lines 195-203.                         *)
(***************************************************************************)
parse_geom_from_xyz(ls) == ColumnsLoop(SliceFrom(ls, 2), <<>>)

(***************************************************************************)
(* parsing.py: parse_geom_from_com, lines 240-251.                         *)
(* re.findall of [A-Za-z]{1,2} +[-.\d ]+ : leftmost match, each quantifier *)
(* greedy.  A space belongs to the last class too, so a match is one or    *)
(* two letters followed by the whole run of characters of the class, the   *)
(* run starting with a space and at least 2 long.  With two letters tried  *)
(* first: one letter matches only when a space follows it, where two       *)
(* letters cannot.                                                         *)
(***************************************************************************)
NumberClass == Digits \cup {"-", ".", " "}

\* Last position of the run of NumberClass characters starting at i (i - 1: no run).
RECURSIVE RunEnd(_, _)
RunEnd(text, i) ==
    IF i <= Len(text) /\ text[i] \in NumberClass THEN RunEnd(text, i + 1) ELSE i - 1

\* Last position of the match starting at i, 0 when the pattern does not match there.
MatchEnd(text, i) ==
    LET tail(k) == /\ k + 1 <= Len(text)
                   /\ text[k] = SP
                   /\ text[k + 1] \in NumberClass
    IN  IF text[i] \notin Letters THEN 0
        ELSE IF i + 1 <= Len(text) /\ text[i + 1] \in Letters /\ tail(i + 2)
             THEN RunEnd(text, i + 2)
        ELSE IF tail(i + 1) THEN RunEnd(text, i + 1)
        ELSE 0

RECURSIVE FindAll(_, _)
FindAll(text, i) ==
    IF i > Len(text) THEN <<>>
    ELSE LET e == MatchEnd(text, i)
         IN  IF e = 0 THEN FindAll(text, i + 1)
             ELSE <<SubSeq(text, i, e)>> \o FindAll(text, e + 1)

parse_geom_from_com(ls) == ColumnsLoop(FindAll(Join(ls, <<NL>>), 1), <<>>)

(***************************************************************************)
(* parsing.py: parse_geom_from_log, lines 142-173.                         *)
(***************************************************************************)
\* lines 143-148: the lines holding a backslash, newlines and spaces removed, joined.
RECURSIVE ResultString(_)
ResultString(ls) ==
    IF ls = <<>> THEN <<>>
    ELSE (IF Contains(Head(ls), BS) THEN Remove(Remove(Head(ls), NL), SP) ELSE <<>>)
         \o ResultString(Tail(ls))

\* lines 157-161 on one entry: a[1], a[2], a[3] are read in this order, a missing
\* one raising IndexError and one float() rejects raising ValueError.
RECURSIVE EntryError(_, _)
EntryError(a, i) ==
    IF i > 4 THEN "none"
    ELSE IF i > Len(a) THEN "IndexError"
    ELSE IF ~IsFloat(a[i]) THEN "ValueError"
    ELSE EntryError(a, i + 1)

\* lines 155-171: IndexError is caught (print, go on); nothing else is.
RECURSIVE EntryLoop(_, _, _)
EntryLoop(data, molecule_, n) ==
    IF data = <<>> THEN [err |-> "none", atoms |-> molecule_, prints |-> n]
    ELSE LET a == Split(Head(data), <<",">>)
             e == EntryError(a, 2)
         IN  IF e = "IndexError" THEN EntryLoop(Tail(data), molecule_, n + 1)
             ELSE IF e = "ValueError"
                  THEN [err |-> "ValueError", atoms |-> None, prints |-> n]
             ELSE EntryLoop(Tail(data),
                            Append(molecule_, <<a[1], Float(a[2]), Float(a[3]), Float(a[4])>>),
                            n)

\* parse_geom_from_log, had it taken the last chunk, chunks[-1].
parse_geom_from_log_last(ls) ==
    LET chunks == Split(ResultString(ls), <<BS, BS>>)
    IN  EntryLoop(Tail(Split(chunks[Len(chunks)], <<BS>>)), <<>>, 0)

\* lines 151-152: chunks[3] raises IndexError on fewer than 4 chunks.
parse_geom_from_log(ls) ==
    LET chunks == Split(ResultString(ls), <<BS, BS>>)
    IN  IF Len(chunks) < 4 THEN [err |-> "IndexError", atoms |-> None, prints |-> 0]
        ELSE EntryLoop(Tail(Split(chunks[4], <<BS>>)), <<>>, 0)

(***************************************************************************)
(* Inputs: the paths main hands to make_molecule_from_file                 *)
(* (glob(f"{directory}/*.{ext}"), or any path of a direct caller).         *)
(***************************************************************************)
NoExt == <<"/">>   \* stands for a path that ends with its stem

Dirs == {<<"d">>, <<".">>, <<"d", ".", "v">>}

Stems == {<<"a">>, <<"a", ".", "b">>, <<"a", "l", "o", "g">>}

Exts == {LOG, XYZ, COM, <<"t", "x", "t">>, <<"l", "o">>, <<>>, NoExt}

PathOf(dir, stem, ext) ==
    dir \o <<"/">> \o stem \o (IF ext = NoExt THEN <<>> ELSE <<".">> \o ext)

(***************************************************************************)
(* Inputs: text of the files.                                              *)
(***************************************************************************)
Spaces(n) == [i \in 1..n |-> SP]

RJust(s, w) == IF Len(s) >= w THEN s ELSE Spaces(w - Len(s)) \o s

LJust(s, w) == IF Len(s) >= w THEN s ELSE s \o Spaces(w - Len(s))

\* A number as written and its value.
Num0 == [txt |-> <<"0", ".", "0", "0", "0", "0", "0", "0">>, val |-> <<0, 0>>]
Num1 == [txt |-> <<"1", ".", "5">>, val |-> <<15, 1>>]
Num2 == [txt |-> <<"-", "0", ".", "2", "5">>, val |-> <<-25, 2>>]
Num9 == [txt |-> <<"9">>, val |-> <<9, 0>>]
NumZ == [txt |-> <<"0", ".">>, val |-> <<0, 0>>]
Junk == <<"x">>

\* The fixed-column layout: symbol in [0,2), x right-justified in [2,17), y in
\* [18,32), z in [33,47), one pad character at 17 and at 32.
FixedLine(sym, x, y, z) ==
    LJust(sym, 2) \o RJust(x, 15) \o <<SP>> \o RJust(y, 14) \o <<SP>> \o RJust(z, 14)

\* The same fields, each written at the left of its columns.
LeftLine(sym, x, y, z) ==
    LJust(sym, 2) \o LJust(x, 15) \o <<SP>> \o LJust(y, 14) \o <<SP>> \o z

AtomC == <<<<"C">>, Num0.val, Num0.val, Num0.val>>
AtomH == <<<<"H">>, Num1.val, Num0.val, Num2.val>>
AtomCl == <<<<"C", "l">>, Num2.val, Num1.val, Num9.val>>
AtomN == <<<<"N">>, Num9.val, Num9.val, Num9.val>>

\* Bounds of the inputs.
MaxRows == 3       \* data lines of an .xyz file, lines of a .com file
MaxRecords == 3    \* records of the geometry chunk of a .log file

SeqsUpTo(S, n) == UNION {[1..k -> S] : k \in 0..n}

Texts(rows) == [i \in 1..Len(rows) |-> rows[i].txt]

Row(txt, kind, atom) == [txt |-> txt, kind |-> kind, atom |-> atom]

File(kind, ls, rows, chunks, archive) ==
    [kind |-> kind, lines |-> ls, rows |-> rows, chunks |-> chunks, archive |-> archive]

(***************************************************************************)
(* .xyz files: the atom count, a comment, then the data lines.             *)
(***************************************************************************)
XyzC == Row(FixedLine(<<"C">>, Num0.txt, Num0.txt, Num0.txt) \o <<NL>>, "atom", AtomC)
XyzH == Row(FixedLine(<<"H">>, Num1.txt, Num0.txt, Num2.txt) \o <<NL>>, "atom", AtomH)
XyzBlank == Row(<<NL>>, "blank", None)
XyzBad == Row(FixedLine(<<"C">>, Junk, Num0.txt, Num0.txt) \o <<NL>>, "bad", None)

XyzRows == {XyzC, XyzH, XyzBlank, XyzBad}

Declared == {<<"1", NL>>, <<"3", NL>>}

\* A single data line cut after its first n characters, the last line of the file.
CutBases ==
    {FixedLine(<<"H">>, Num1.txt, Num0.txt, Num2.txt),
     LeftLine(<<"H">>, Num1.txt, Num0.txt, LJust(Num2.txt, 14))}

XyzFiles ==
    {File("xyz", <<d, <<"c", NL>>>> \o Texts(rows), rows, <<>>, <<>>) :
        d \in Declared, rows \in SeqsUpTo(XyzRows, MaxRows)}
    \cup
    {File("xyz", <<<<"1", NL>>, <<"c", NL>>, SubSeq(b, 1, n)>>,
          <<Row(SubSeq(b, 1, n), "cut", None)>>, <<>>, <<>>) :
        b \in CutBases, n \in 1..47}

(***************************************************************************)
(* .com files: directives, blank lines and atom lines.                     *)
(***************************************************************************)
ComRoute ==
    Row(<<"#", " ", "o", "p", "t", " ", "f", "r", "e", "q", " ", "b", "3", "l", "y", "p",
          "/", "6", "-", "3", "1", "g", NL>>, "route", None)
ComBlank == Row(<<NL>>, "blank", None)
ComCharge == Row(<<"0", " ", "1", NL>>, "charge", None)
ComC == Row(FixedLine(<<"C">>, Num0.txt, Num0.txt, Num0.txt) \o <<NL>>, "atom", AtomC)
ComCl == Row(FixedLine(<<"C", "l">>, Num2.txt, Num1.txt, Num9.txt) \o <<NL>>, "atom", AtomCl)
\* "C    0.000000   0.000000   0.000000"
ComLoose ==
    Row(<<"C">> \o Spaces(4) \o Num0.txt \o Spaces(3) \o Num0.txt \o Spaces(3) \o Num0.txt
        \o <<NL>>, "loose", AtomC)
\* a title line, "opt 2": the pattern matches "pt 2"
ComTitle == Row(<<"o", "p", "t", " ", "2", NL>>, "title", None)

ComRows == {ComRoute, ComBlank, ComCharge, ComC, ComCl, ComLoose, ComTitle}

ComFiles ==
    {File("com", Texts(rows), rows, <<>>, <<>>) : rows \in SeqsUpTo(ComRows, MaxRows)}

(***************************************************************************)
(* .log files: text without a backslash around the archive block, the      *)
(* archive block wrapped at a fixed width, each line indented by a space.  *)
(* A chunk is its first element and its records, joined by a backslash;    *)
(* the archive is the chunks joined by two.                                *)
(***************************************************************************)
RecC ==
    Row(<<"C", ",">> \o NumZ.txt \o <<",">> \o NumZ.txt \o <<",">> \o NumZ.txt, "atom", AtomC)
RecH ==
    Row(<<"H", ",">> \o Num1.txt \o <<",">> \o NumZ.txt \o <<",">> \o Num2.txt, "atom", AtomH)
RecN == Row(<<"N", ",", "9", ",", "9", ",", "9">>, "atom", AtomN)
RecEmpty == Row(<<>>, "short", None)
RecShort == Row(<<"C", ",">> \o Num1.txt, "short", None)
RecBad == Row(<<"C", ",">> \o Junk \o <<",">> \o NumZ.txt \o <<",">> \o NumZ.txt, "bad", None)

Records == {RecC, RecH, RecEmpty, RecShort, RecBad}

Chunk(head, recs) == [head |-> head, recs |-> recs]

ChunkText(c) == Join(<<c.head>> \o Texts(c.recs), <<BS>>)

ChunkJob == Chunk(<<"1">>, <<Row(<<"1">>, "short", None), Row(<<"F", "O", "p", "t">>, "short", None)>>)
ChunkRoute == Chunk(<<"#", "o", "p", "t">>, <<>>)
ChunkTitle == Chunk(<<"t">>, <<>>)
ChunkEnd == Chunk(<<"@">>, <<>>)
ChunkDecoy == Chunk(<<"0", ",", "1">>, <<RecN>>)

Geometry(recs) == Chunk(<<"0", ",", "1">>, recs)

\* The chunks around the geometry chunk g.
Layouts(g) ==
    {<<ChunkJob, ChunkRoute, ChunkTitle, g, ChunkEnd>>,
     <<ChunkJob, ChunkRoute, ChunkTitle, g>>,
     <<ChunkJob, ChunkRoute, ChunkDecoy, g, ChunkDecoy>>,
     <<ChunkJob, ChunkRoute, ChunkTitle, ChunkDecoy, g>>,
     <<ChunkJob, ChunkRoute, g>>,
     <<ChunkJob, g>>,
     <<g>>}

\* An empty record is written as a backslash ending the text: it can only be the
\* last record of the last chunk (before another chunk it would make three
\* backslashes in a row, which is another text).
Writable(chunks) ==
    \A i \in 1..Len(chunks) : \A j \in 1..Len(chunks[i].recs) :
        chunks[i].recs[j] = RecEmpty => i = Len(chunks) /\ j = Len(chunks[i].recs)

ArchiveOf(chunks) == Join([i \in 1..Len(chunks) |-> ChunkText(chunks[i])], <<BS, BS>>)

RECURSIVE Wrap(_, _)
Wrap(s, w) ==
    IF Len(s) <= w THEN <<<<SP>> \o s \o <<NL>>>>
    ELSE <<<<SP>> \o SubSeq(s, 1, w) \o <<NL>>>> \o Wrap(SubSeq(s, w + 1, Len(s)), w)

Widths == {70, 16}

Banner == <<" ", "N", "o", "r", "m", "a", "l", NL>>

LogFiles ==
    {File("log", <<Banner>> \o Wrap(ArchiveOf(c), w) \o <<Banner>>, <<>>, c, ArchiveOf(c)) :
        c \in {l \in UNION {Layouts(Geometry(r)) : r \in SeqsUpTo(Records, MaxRecords)} :
                  Writable(l)},
        w \in Widths}
    \cup {File("log", <<Banner, Banner>>, <<>>, <<>>, <<>>)}

Missing == File("missing", <<>>, <<>>, <<>>, <<>>)
Unreadable == File("unreadable", <<>>, <<>>, <<>>, <<>>)

\* What the file of a path handed to a parsing function can hold.
FilesFor(p) ==
    {Missing, Unreadable} \cup
    (CASE p = "parse_geom_from_log" -> LogFiles
       [] p = "parse_geom_from_xyz" -> XyzFiles
       [] p = "parse_geom_from_com" -> ComFiles)

(***************************************************************************)
(* The program.                                                            *)
(***************************************************************************)
Init ==
    /\ pc = "main"
    /\ file = None
    /\ directory = None
    /\ parser = "none"
    /\ disk = None
    /\ handles = 0
    /\ opened = 0
    /\ lines = None
    /\ result_string = None
    /\ result = None
    /\ err = "none"
    /\ prints = 0
    /\ molecule = None

\* main.py 64, 71-72: main calls make_molecule_from_file(file, directory), for the
\* first time or after the previous call has returned.
Call(dir, stem, ext) ==
    /\ pc \in {"main", "returned"}
    /\ pc' = "dispatch"
    /\ file' = PathOf(dir, stem, ext)
    /\ directory' = dir
    /\ parser' = "none"
    /\ disk' = None
    /\ opened' = 0
    /\ lines' = None
    /\ result_string' = None
    /\ result' = None
    /\ err' = "none"
    /\ prints' = 0
    /\ molecule' = None
    /\ UNCHANGED handles

\* main.py 21: the lookup; the parsing function is called if it is found.
Dispatch ==
    /\ pc = "dispatch"
    /\ LET f == Lookup(file)
       IN  IF f \in {"ValueError", "KeyError"}
           THEN /\ err' = f
                /\ pc' = "raised"
                /\ UNCHANGED parser
           ELSE /\ parser' = f
                /\ pc' = "open"
                /\ UNCHANGED err
    /\ UNCHANGED <<file, directory, disk, handles, opened, lines, result_string, result,
                   prints, molecule>>

\* parsing.py 139, 192, 222: open(file, "r+") of the with statement.
Open ==
    /\ pc = "open"
    /\ \E d \in FilesFor(parser) :
        /\ disk' = d
        /\ IF d = Missing
           THEN /\ err' = "FileNotFoundError"
                /\ pc' = "raised"
                /\ UNCHANGED <<handles, opened>>
           ELSE /\ handles' = handles + 1
                /\ opened' = opened + 1
                /\ pc' = "read"
                /\ UNCHANGED err
    /\ UNCHANGED <<file, directory, parser, lines, result_string, result, prints, molecule>>

\* ReadLines, had the file been closed by a f.close() after f.readlines() instead
\* of by a with statement.
ReadLinesLeak ==
    /\ pc = "read"
    /\ IF disk = Unreadable
       THEN /\ err' = "UnicodeDecodeError"
            /\ pc' = "raised"
            /\ UNCHANGED <<lines, handles>>
       ELSE /\ lines' = disk.lines
            /\ handles' = handles - 1
            /\ pc' = "parse"
            /\ UNCHANGED err
    /\ UNCHANGED <<file, directory, parser, disk, opened, result_string, result, prints,
                   molecule>>

\* parsing.py 140, 193, 223: f.readlines() and the end of the with statement, which
\* closes f whether readlines returned or raised.
ReadLines ==
    /\ pc = "read"
    /\ handles' = handles - 1
    /\ IF disk = Unreadable
       THEN /\ err' = "UnicodeDecodeError"
            /\ pc' = "raised"
            /\ UNCHANGED lines
       ELSE /\ lines' = disk.lines
            /\ pc' = "parse"
            /\ UNCHANGED err
    /\ UNCHANGED <<file, directory, parser, disk, opened, result_string, result, prints,
                   molecule>>

\* The rest of a parsing function: it returns its list or raises.
Finish(r) ==
    /\ result' = r.atoms
    /\ err' = r.err
    /\ prints' = r.prints
    /\ pc' = IF r.err = "none" THEN "parsed" ELSE "raised"
    /\ UNCHANGED <<file, directory, parser, disk, handles, opened, lines, molecule>>

\* parsing.py 142-173
ParseLog ==
    /\ pc = "parse"
    /\ parser = "parse_geom_from_log"
    /\ result_string' = ResultString(lines)
    /\ Finish(parse_geom_from_log(lines))

\* parsing.py 195-203
ParseXyz ==
    /\ pc = "parse"
    /\ parser = "parse_geom_from_xyz"
    /\ UNCHANGED result_string
    /\ Finish(parse_geom_from_xyz(lines))

\* parsing.py 240-251
ParseCom ==
    /\ pc = "parse"
    /\ parser = "parse_geom_from_com"
    /\ UNCHANGED result_string
    /\ Finish(parse_geom_from_com(lines))

\* main.py 22-26
MakeMolecule ==
    /\ pc = "parsed"
    /\ molecule' = [name |-> SliceFrom(file, Len(directory)),
                    atoms |-> [i \in 1..Len(result) |->
                                 [name |-> result[i][1],
                                  pos |-> <<result[i][2], result[i][3], result[i][4]>>]]]
    /\ pc' = "returned"
    /\ UNCHANGED <<file, directory, parser, disk, handles, opened, lines, result_string,
                   result, err, prints>>

Next ==
    \/ \E dir \in Dirs, stem \in Stems, ext \in Exts : Call(dir, stem, ext)
    \/ Dispatch
    \/ Open
    \/ ReadLines
    \/ ParseLog
    \/ ParseXyz
    \/ ParseCom
    \/ MakeMolecule

Spec == Init /\ [][Next]_vars

(***************************************************************************)
(* What the claims speak of.                                               *)
(***************************************************************************)
\* The extension of a path: what follows the last "." of its last component.
RECURSIVE LastIndexFrom(_, _, _)
LastIndexFrom(s, c, i) ==
    IF i = 0 THEN -1
    ELSE IF s[i] = c THEN i - 1
    ELSE LastIndexFrom(s, c, i - 1)

LastIndex(s, c) == LastIndexFrom(s, c, Len(s))

Basename(path) == SliceFrom(path, LastIndex(path, "/") + 1)

ExtensionOf(path) ==
    LET b == Basename(path)
        i == LastIndex(b, ".")
    IN  IF i = -1 THEN NoExt ELSE SliceFrom(b, i + 1)

\* make_molecule_from_file is past its lookup.
Dispatched == pc \notin {"main", "dispatch"}

\* The parsing function p has returned or raised.
Parsed(p) == parser = p /\ pc \in {"parsed", "returned", "raised"} /\ lines # None

\* The atoms of the rows that are atoms, in order.
RECURSIVE AtomsOf(_)
AtomsOf(rows) ==
    IF rows = <<>> THEN <<>>
    ELSE (IF Head(rows).kind = "atom" THEN <<Head(rows).atom>> ELSE <<>>)
         \o AtomsOf(Tail(rows))

Kinds(rows) == {rows[i].kind : i \in 1..Len(rows)}

CountNot(rows, kind) == Cardinality({i \in 1..Len(rows) : rows[i].kind # kind})

\* The joined backslash lines of the .log file are the archive as it was written,
\* of n chunks at least.
Archive(n) ==
    /\ Parsed("parse_geom_from_log")
    /\ result_string = disk.archive
    /\ Len(disk.chunks) >= n

\* A line without the newline that ends it.
Content(line) ==
    IF line # <<>> /\ line[Len(line)] = NL THEN SubSeq(line, 1, Len(line) - 1) ELSE line

(***************************************************************************)
(* The claims.                                                             *)
(***************************************************************************)
\* C1: for every path whose extension is log, xyz or com, the dispatcher calls the
\* parsing function of that extension, wherever else the path holds a ".".
C1_ExtensionSelectsParser ==
    (Dispatched /\ ExtensionOf(file) \in parsing_dict)
        => parser = ParserName(ExtensionOf(file))

\* C2 as amended: for every path whose extension is not log, xyz or com, the
\* dispatcher raises KeyError (ValueError when the path holds no "."), calls no
\* parsing function, opens no file and makes no Molecule.
C2_UnknownExtensionRaises ==
    (Dispatched /\ ExtensionOf(file) \notin parsing_dict)
        => /\ pc = "raised"
           /\ err = (IF Contains(file, ".") THEN "KeyError" ELSE "ValueError")
           /\ parser = "none"
           /\ opened = 0
           /\ result = None
           /\ molecule = None

\* C2 witness: a path with extension txt has been refused.
C2_Witness ==
    /\ pc = "raised"
    /\ ExtensionOf(file) = <<"t", "x", "t">>
    /\ err = "KeyError"
    /\ parser = "none"

\* C2 as stated: the failure for an unknown extension is an UnsupportedFormatError.
C2_Original ==
    (Dispatched /\ ExtensionOf(file) \notin parsing_dict)
        => /\ pc = "raised"
           /\ err = "UnsupportedFormatError"
           /\ parser = "none"
           /\ molecule = None

\* C3 as amended: when the archive has fewer than 4 chunks, parse_geom_from_log
\* raises IndexError, the kind of exception its per-record handler catches, and
\* returns no list.
C3_ShortArchiveRaises ==
    (Archive(0) /\ Len(disk.chunks) < 4)
        => /\ pc = "raised"
           /\ err = "IndexError"
           /\ result = None
           /\ molecule = None

\* C3 witness: an archive of 3 chunks, the last one holding an atom record, has
\* been refused.
C3_Witness ==
    /\ Archive(3)
    /\ Len(disk.chunks) = 3
    /\ "atom" \in Kinds(disk.chunks[3].recs)
    /\ pc = "raised"
    /\ err = "IndexError"

\* C3 as stated: the failure on fewer than 4 chunks is an
\* UnrecognizedArchiveFormatError, a kind of its own.
C3_Original ==
    (Archive(0) /\ Len(disk.chunks) < 4)
        => /\ pc = "raised"
           /\ err = "UnrecognizedArchiveFormatError"
           /\ result = None

\* C4: every malformed record of the geometry chunk (fewer than 4 fields, or a
\* coordinate that is no number) is skipped: the call returns the well-formed
\* records in order and prints one diagnostic per skipped record.
C4_MalformedRecordsSkipped ==
    Archive(4)
        => /\ err = "none"
           /\ result = AtomsOf(disk.chunks[4].recs)
           /\ prints = CountNot(disk.chunks[4].recs, "atom")

\* C5: parse_geom_from_xyz reads one atom per non-empty data line, in file order,
\* whatever count line 1 declares; an empty line after the header is not read and
\* does not end the parse.
C5_BlankLinesNotRead ==
    (Parsed("parse_geom_from_xyz") /\ Kinds(disk.rows) \subseteq {"atom", "blank"})
        => /\ err = "none"
           /\ result = AtomsOf(disk.rows)

\* C6: in parse_geom_from_com a match whose slices are too short or no numbers is
\* skipped: the call returns the atoms of the other matches, in order.
C6_BadMatchesSkipped ==
    (Parsed("parse_geom_from_com")
        /\ Kinds(disk.rows) \subseteq {"route", "blank", "charge", "atom", "title"})
        => /\ err = "none"
           /\ result = AtomsOf(disk.rows)

\* C7 as amended: the fixed-column reading raises ValueError for every line (xyz)
\* or match (com) shorter than 34 characters, and no atom comes of it; a line of 34
\* to 46 characters whose cut slices are numbers is read as an atom.
C7_ShortLineRaises ==
    /\ (Parsed("parse_geom_from_xyz")
          /\ \E i \in 1..Len(disk.rows) : Len(Content(disk.rows[i].txt)) < 34)
        => /\ pc = "raised"
           /\ err = "ValueError"
           /\ result = None
           /\ molecule = None
    /\ (Parsed("parse_geom_from_com")
          /\ LET ms == FindAll(Join(lines, <<NL>>), 1)
             IN  \E i \in 1..Len(ms) : Len(ms[i]) < 34)
        => /\ pc = "raised"
           /\ err = "ValueError"
           /\ result = None
           /\ molecule = None
    /\ (Parsed("parse_geom_from_xyz")
          /\ Kinds(disk.rows) = {"cut"}
          /\ Len(disk.rows[1].txt) \in 34..46
          /\ ColumnsOk(disk.rows[1].txt))
        => /\ err = "none"
           /\ result = <<ColumnsAtom(disk.rows[1].txt)>>

\* C7 witness: a line of 33 characters whose x and y slices are numbers has been
\* refused.
C7_Witness ==
    /\ Parsed("parse_geom_from_xyz")
    /\ Kinds(disk.rows) = {"cut"}
    /\ Len(disk.rows[1].txt) = 33
    /\ IsFloat(Slice(disk.rows[1].txt, 2, 17))
    /\ IsFloat(Slice(disk.rows[1].txt, 18, 32))
    /\ pc = "raised"
    /\ err = "ValueError"

\* C7 as stated: the reading fails for every line shorter than 47 characters.
C7_Original ==
    (Parsed("parse_geom_from_xyz")
        /\ \E i \in 1..Len(disk.rows) : Len(Content(disk.rows[i].txt)) < 47)
        => /\ pc = "raised"
           /\ result = None
           /\ molecule = None

\* C8: the route line "# opt freq b3lyp/6-31g" followed by the atom line
\* "C    0.000000   0.000000   0.000000" gives exactly one atom, C at the origin.
C8_RouteThenAtomLine ==
    (Parsed("parse_geom_from_com") /\ disk.rows = <<ComRoute, ComLoose>>)
        => /\ err = "none"
           /\ result = <<AtomC>>

\* C9: for an archive of at least 4 chunks the atoms are those of the well-formed
\* records of chunk 3, its first element left out, in order, and of no other chunk.
C9_AtomsFromChunkThree ==
    Archive(4)
        => /\ pc # "raised"
           /\ result = AtomsOf(disk.chunks[4].recs)

\* C10: a parse opens one file handle, and no handle is open once it has returned
\* or raised: a handle is open only between open() and the end of the with
\* statement.
C10_HandleReleased ==
    /\ handles = (IF pc = "read" THEN 1 ELSE 0)
    /\ opened <= 1
    /\ (pc \in {"read", "parse", "parsed", "returned"} => opened = 1)
    /\ (pc = "raised" /\ lines # None => opened = 1)

\* C10 witness: a parse has failed after its file was read, and none is open.
C10_Witness ==
    /\ pc = "raised"
    /\ lines # None
    /\ err = "ValueError"
    /\ opened = 1
    /\ handles = 0

====
